---- MODULE Spec2Model ----
(***************************************************************************)
(* Model of orgsync's concurrent synchronisation engine (package sync):    *)
(* the listing step, the bounded worker pool of syncRepositories, the      *)
(* retry loop of syncRepoWithRetry, the status channel, the listener       *)
(* command and the aggregator (Model.Update / updateRepositoryStatus).     *)
(***************************************************************************)
EXTENDS Integers, Sequences, FiniteSets, TLC

(* ------------------------------ bounds -------------------------------- *)
\* Largest number of repositories the listing returns.
MaxRepos == 2
\* Largest Config.MaxConcurrency of the scaled runs (the default is 5).
MaxConc == 2
\* Largest capacity of statusChan of the scaled runs (NewModel makes it
\* 100).
MaxCap == 2
\* Largest Config.RetryAttempts of the scaled runs (the default is 2).
MaxRetry == 2
\* Longest message, in words, of an error handed to isNonRetryableError.
MaxWords == 3
\* Progress ticks of a simulated sync after which its progress is 1.0.
MaxTicks == 2
\* Direct calls of updateRepositoryStatus made on one model.
MaxUpdates == 3

(* --------------------------- program values --------------------------- *)
StatusPending == "Pending"
StatusCloning == "Cloning"
StatusFetching == "Fetching"
StatusCompleted == "Completed"
StatusFailed == "Failed"

\* Names the listing can return, in listing order (unique within a run).
RepoNames == <<"a", "b", "c", "d">>
PlaceholderName == "Error fetching repos"

\* An error value: its message (a sequence of words) and the syncRepo call
\* of the worker that produced it (0: not produced by a syncRepo call).
\* NilErr is Go's nil error.
NilErr == [msg |-> <<>>, at |-> 0]
MkErr(m, k) == [msg |-> m, at |-> k]
ListingErr == MkErr(<<"failed", "to", "fetch", "repos">>, 0)
CtxCanceled == MkErr(<<"context", "canceled">>, 0)

\* Causes an external clone/fetch can fail with ("signal killed": the
\* command's context was done, by the timeout or by cancellation).
AuthCause == <<"authentication", "failed">>
PermissionCause == <<"permission", "denied">>
NotFoundCause == <<"repository", "not", "found">>
TimeoutCause == <<"network", "timeout">>
KilledCause == <<"signal", "killed">>
\* What exec's Start answers when the command's context is already done.
CanceledCause == <<"context", "canceled">>
SyncCauses ==
    {AuthCause, PermissionCause, NotFoundCause, TimeoutCause, KilledCause}

ContainsAtStart(s, sub) ==
    /\ Len(sub) <= Len(s)
    /\ \A j \in 1..Len(sub) : s[j] = sub[j]

\* strings.Contains on word sequences.
Contains(s, sub) ==
    \E k \in 0..(Len(s) - Len(sub)) :
        \A j \in 1..Len(sub) : s[k + j] = sub[j]

isNonRetryableErrorSkipNotFound(err) ==
    /\ err # NilErr
    /\ \/ Contains(err.msg, <<"authentication">>)
       \/ Contains(err.msg, <<"permission", "denied">>)

isNonRetryableError(err) ==
    /\ err # NilErr
    /\ \/ Contains(err.msg, <<"authentication">>)
       \/ Contains(err.msg, <<"permission", "denied">>)
       \/ Contains(err.msg, <<"not", "found">>)
       \/ Contains(err.msg, <<"repository", "not", "found">>)

DefaultSyncConfigWithoutRetries ==
    [MaxConcurrency |-> 5, Timeout |-> 30, RetryAttempts |-> 0,
     RetryDelay |-> 1]

\* DefaultSyncConfig(): the durations in seconds.
DefaultSyncConfig ==
    [MaxConcurrency |-> 5, Timeout |-> 30, RetryAttempts |-> 2,
     RetryDelay |-> 1]

\* A Repository value as fetchRepositories builds it.
NewRepository(name, status, err) ==
    [Name |-> name, Status |-> status, Error |-> err,
     StartTime |-> 0, EndTime |-> 0, RetryCount |-> 0, Progress |-> 0]

\* A repositoryStatusMsg.
StatusMsg(name, status, err) == [Name |-> name, Status |-> status, Error |-> err]
NoMsg == [Name |-> "", Status |-> "", Error |-> NilErr]

IsActive(status) == status \in {StatusCloning, StatusFetching}
IsTerminal(status) == status \in {StatusCompleted, StatusFailed}

(* ------------------------------- state -------------------------------- *)
VARIABLES
    phase,         \* "listing" | "fetched" | "launch" | "running"
    fetchedMsg,    \* Repositories of the repositoriesFetchedMsg in flight
    Repositories,  \* Model.Repositories
    Done,          \* Model.Done
    cancelled,     \* m.ctx is cancelled
    program,       \* "running" | "quitting": tea.Quit has been issued
    statusChan,    \* buffered contents of m.statusChan
    chanClosed,    \* m.statusChan has been closed
    listener,      \* "armed": a listenForUpdates command is outstanding
    inbox,         \* update returned by the listener, not yet applied
    semaphore,     \* number of tokens in the semaphore channel
    wg,            \* the WaitGroup counter
    closer,        \* "none" | "waiting" | "closed" (the closing goroutine)
    wpc,           \* position of each worker goroutine ("syncing": its
                   \* external process runs; "refused": exec did not
                   \* start it, the context being done already)
    slot,          \* worker holds an admission slot (its release is deferred)
    attempt,       \* loop variable of syncRepoWithRetry
    calls,         \* syncRepo calls made so far by the worker
    outcomes,      \* errors returned by those calls, in order
    lastErr,       \* lastErr of syncRepoWithRetry
    retErr,        \* value syncRepoWithRetry returned
    op,            \* operation of the syncRepo call in progress:
                   \* "clone" | "fetch", "none" outside a call
    exists,        \* local copy present, per repository name
    Config,        \* Model.Config
    statusCap,     \* cap(m.statusChan)
    remote,        \* what the listing capability answers in this run
    causes,        \* failure causes the external commands can produce
    TestMode,      \* Model.TestMode
    TestRepoCount, \* Model.TestRepoCount
    activeSent,    \* per worker: active-state updates sent
    terminalSent,  \* per worker: terminal updates sent
    clock,         \* time.Now(), advanced by every applied update
    ShowCompleted, \* Model.ShowCompleted
    errArg,        \* argument of a direct call of isNonRetryableError
    verdict,       \* what that call returned: <<>> before it, then <<b>>
    updArg         \* arguments of the last direct call of
                   \* updateRepositoryStatus (NoMsg: none yet)

vars == <<phase, fetchedMsg, Repositories, Done, cancelled, program,
          statusChan, chanClosed, listener, inbox, semaphore, wg, closer,
          wpc, slot, attempt, calls, outcomes, lastErr, retErr, op, exists,
          Config, statusCap, remote, causes, TestMode, TestRepoCount,
          activeSent, terminalSent, clock, ShowCompleted, errArg, verdict,
          updArg>>

modelVars == <<Repositories, Done, clock, ShowCompleted>>
chanVars == <<statusChan, chanClosed>>
poolVars == <<semaphore, wg, closer>>
runVars == <<Config, statusCap, remote, causes, TestMode, TestRepoCount>>
callVars == <<errArg, verdict, updArg>>
envVars == <<exists, runVars, callVars>>
workerVars == <<wpc, slot, attempt, calls, outcomes, lastErr, retErr, op,
                activeSent, terminalSent>>

Workers == 1..Len(Repositories)
AllNames == {RepoNames[i] : i \in 1..Len(RepoNames)} \cup {PlaceholderName}

\* The runs explored.  A scenario fixes the configuration of the run and
\* its environment: repos is the number of names the listing returns (-1:
\* the listing fails), cloned the repositories with a local copy at start.
\* The more repositories a scenario has, the smaller its retry budget and
\* its set of failure causes; with more than two, the channel holds as many
\* updates as there are slots.
RetryBudget(n) == IF n <= 1 THEN MaxRetry ELSE IF n = 2 THEN 1 ELSE 0

CausesFor(n) ==
    IF n <= 1 THEN SyncCauses
    ELSE IF n = 2 THEN {AuthCause, TimeoutCause}
    ELSE {TimeoutCause}

ClonedFor(n) == IF n = 1 THEN {{}, {RepoNames[1]}} ELSE {{RepoNames[1]}}

\* Three repositories contending for two slots over a channel that holds
\* two updates (the Concurrency Coordinator scenario of the spec, scaled).
ContentionScenario ==
    [repos |-> 3, conc |-> 2, cap |-> 2, retry |-> 0, cloned |-> {}]

\* The model NewModel builds (DefaultSyncConfig, a channel of capacity 100)
\* run on an organization with one repository.
DefaultScenario ==
    [repos |-> 1, conc |-> DefaultSyncConfig.MaxConcurrency, cap |-> 100,
     retry |-> DefaultSyncConfig.RetryAttempts, cloned |-> {}]

Scenarios ==
    { sc \in [repos : -1..MaxRepos, conc : 1..MaxConc, cap : 1..MaxCap,
              retry : 0..MaxRetry, cloned : SUBSET {RepoNames[1]}] :
        /\ sc.retry <= RetryBudget(sc.repos)
        /\ sc.cloned \in ClonedFor(sc.repos)
        /\ sc.repos <= 0 => sc.conc = 1 /\ sc.retry = 0
        /\ sc.repos >= 3 => sc.cap = sc.conc }
    \cup {ContentionScenario, DefaultScenario}

\* fetchRepositories builds one Pending record per listed name.
ListedRepositories(n) ==
    [i \in 1..n |-> NewRepository(RepoNames[i], StatusPending, NilErr)]

\* fetchRepositories on a listing failure: one placeholder record.
PlaceholderRepositories ==
    <<NewRepository(PlaceholderName, StatusFailed, ListingErr)>>

InitEngine ==
    /\ phase = "listing"
    /\ fetchedMsg = <<>>
    /\ Repositories = <<>>
    /\ Done = FALSE
    /\ cancelled = FALSE
    /\ program = "running"
    /\ statusChan = <<>>
    /\ chanClosed = FALSE
    /\ listener = "armed"
    /\ inbox = NoMsg
    /\ semaphore = 0
    /\ wg = 0
    /\ closer = "none"
    /\ wpc = <<>>
    /\ slot = <<>>
    /\ attempt = <<>>
    /\ calls = <<>>
    /\ outcomes = <<>>
    /\ lastErr = <<>>
    /\ retErr = <<>>
    /\ op = <<>>
    /\ activeSent = <<>>
    /\ terminalSent = <<>>
    /\ clock = 0
    /\ ShowCompleted = FALSE

\* A run in normal mode (NewModel leaves TestMode false).
InitRun ==
    /\ InitEngine
    /\ \E sc \in Scenarios :
         /\ Config = [DefaultSyncConfig EXCEPT !.MaxConcurrency = sc.conc,
                                               !.RetryAttempts = sc.retry]
         /\ statusCap = sc.cap
         /\ remote = sc.repos
         /\ causes = CausesFor(sc.repos)
         /\ exists = [n \in AllNames |-> n \in sc.cloned]
    /\ TestMode = FALSE
    /\ TestRepoCount = 0

Init ==
    /\ InitRun
    /\ errArg = NilErr
    /\ verdict = <<>>
    /\ updArg = NoMsg

(* ------------------------- listing and launch ------------------------- *)
\* Model.fetchRepositories, run as a command by Init.
FetchRepositories ==
    /\ phase = "listing"
    /\ \/ /\ TestMode       \* generateTestRepos
          /\ fetchedMsg' = ListedRepositories(TestRepoCount)
       \/ /\ ~TestMode
          /\ fetchedMsg' = IF remote < 0 THEN PlaceholderRepositories
                                         ELSE ListedRepositories(remote)
       \/ /\ ~TestMode
          /\ cancelled      \* the listing command is killed with m.ctx
          /\ fetchedMsg' = PlaceholderRepositories
    /\ phase' = "fetched"
    /\ UNCHANGED <<modelVars, cancelled, program, chanVars, listener, inbox,
                   poolVars, workerVars, envVars>>

\* Model.Update, case repositoriesFetchedMsg.
UpdateRepositoriesFetched ==
    /\ phase = "fetched"
    /\ Repositories' = fetchedMsg
    /\ phase' = "launch"
    /\ UNCHANGED <<fetchedMsg, Done, clock, ShowCompleted, cancelled, program,
                   chanVars, listener, inbox, poolVars, workerVars, envVars>>

\* The command returned by Model.syncRepositories: one goroutine per record
\* (wg.Add(1) each) and the goroutine that closes the channel.
SyncRepositoriesCmd ==
    /\ phase = "launch"
    /\ phase' = "running"
    /\ wg' = Len(Repositories)
    /\ closer' = "waiting"
    /\ wpc' = [i \in Workers |-> "acquire"]
    /\ slot' = [i \in Workers |-> FALSE]
    /\ attempt' = [i \in Workers |-> 0]
    /\ calls' = [i \in Workers |-> 0]
    /\ outcomes' = [i \in Workers |-> <<>>]
    /\ lastErr' = [i \in Workers |-> NilErr]
    /\ retErr' = [i \in Workers |-> NilErr]
    /\ op' = [i \in Workers |-> "none"]
    /\ activeSent' = [i \in Workers |-> 0]
    /\ terminalSent' = [i \in Workers |-> 0]
    /\ UNCHANGED <<fetchedMsg, modelVars, cancelled, program, chanVars,
                   listener, inbox, semaphore, envVars>>

(* ------------------ worker goroutines of syncRepositories ------------- *)
NameOf(i) == Repositories[i].Name

ReturnKeepingSlot(i) ==
    /\ UNCHANGED <<semaphore, slot>>
    /\ wg' = wg - 1
    /\ wpc' = [wpc EXCEPT ![i] = "returned"]

\* The deferred calls of a worker goroutine: release the slot if one was
\* acquired, then wg.Done().
Return(i) ==
    /\ semaphore' = IF slot[i] THEN semaphore - 1 ELSE semaphore
    /\ slot' = [slot EXCEPT ![i] = FALSE]
    /\ wg' = wg - 1
    /\ wpc' = [wpc EXCEPT ![i] = "returned"]

\* The semaphore channel accepts a token.
SemaphoreFreeNoLimit == TRUE

SemaphoreFree == semaphore < Config.MaxConcurrency

\* select { case semaphore <- struct{}{}: defer release }
Acquire(i) ==
    /\ wpc[i] = "acquire"
    /\ SemaphoreFree
    /\ semaphore' = semaphore + 1
    /\ slot' = [slot EXCEPT ![i] = TRUE]
    /\ wpc' = [wpc EXCEPT ![i] = "sendInitial"]
    /\ UNCHANGED <<phase, fetchedMsg, modelVars, cancelled, program, chanVars,
                   listener, inbox, wg, closer, attempt, calls, outcomes,
                   lastErr, retErr, op, envVars, activeSent, terminalSent>>

\* select { case <-m.ctx.Done(): return } while waiting for a slot.
AcquireCancelled(i) ==
    /\ wpc[i] = "acquire"
    /\ cancelled
    /\ Return(i)
    /\ UNCHANGED <<phase, fetchedMsg, modelVars, cancelled, program, chanVars,
                   listener, inbox, closer, attempt, calls, outcomes,
                   lastErr, retErr, op, envVars, activeSent, terminalSent>>

OperationAlwaysClone(i) == "clone"

\* The operation syncRepo chooses: repoExists decides fetch or clone.
Operation(i) == IF exists[NameOf(i)] THEN "fetch" ELSE "clone"

\* syncRepo is entered.  In test mode it is simulateRepoSync; otherwise the
\* external command is run, and no process is started when the context is
\* already done.  (A step local to the worker: it is taken together with
\* the step that leads to the call.)
StartSync(i) ==
    /\ op' = [op EXCEPT ![i] = IF TestMode THEN "none" ELSE Operation(i)]
    /\ calls' = [calls EXCEPT ![i] = @ + 1]
    /\ wpc' = [wpc EXCEPT ![i] = IF TestMode THEN "simulating"
                                 ELSE IF cancelled THEN "refused"
                                 ELSE "syncing"]

\* A send on statusChan can proceed: the buffer has room.
CanSend == Len(statusChan) < statusCap /\ ~chanClosed

\* m.statusChan <- msg by worker i (the counters record what was sent).
Emit(i, msg) ==
    /\ statusChan' = Append(statusChan, msg)
    /\ activeSent' = [activeSent EXCEPT ![i] = @ + (IF IsActive(msg.Status) THEN 1 ELSE 0)]
    /\ terminalSent' = [terminalSent EXCEPT ![i] = @ + (IF IsTerminal(msg.Status) THEN 1 ELSE 0)]

\* The initial status a worker reports (normal mode: always Cloning).
InitialStatus(i) == StatusCloning

\* The initial statuses a worker can report: in test mode randFloat()
\* decides between Cloning and Fetching.
InitialStatuses(i) ==
    IF TestMode THEN {StatusCloning, StatusFetching} ELSE {InitialStatus(i)}

\* select { case m.statusChan <- initial status }
SendInitial(i) ==
    /\ wpc[i] = "sendInitial"
    /\ CanSend
    /\ \E status \in InitialStatuses(i) :
         Emit(i, StatusMsg(NameOf(i), status, NilErr))
    /\ attempt' = [attempt EXCEPT ![i] = 0]
    /\ lastErr' = [lastErr EXCEPT ![i] = NilErr]
    /\ StartSync(i)
    /\ UNCHANGED <<phase, fetchedMsg, modelVars, cancelled, program, chanClosed,
                   listener, inbox, poolVars, slot, outcomes,
                   retErr, envVars>>

\* A return at the initial send that leaves the slot taken.
SendInitialCancelledLeaking(i) ==
    /\ wpc[i] = "sendInitial"
    /\ cancelled
    /\ ReturnKeepingSlot(i)
    /\ UNCHANGED <<phase, fetchedMsg, modelVars, cancelled, program, chanVars,
                   listener, inbox, closer, attempt, calls, outcomes,
                   lastErr, retErr, op, envVars, activeSent, terminalSent>>

\* select { case <-m.ctx.Done(): return } at the initial send.
SendInitialCancelled(i) ==
    /\ wpc[i] = "sendInitial"
    /\ cancelled
    /\ Return(i)
    /\ UNCHANGED <<phase, fetchedMsg, modelVars, cancelled, program, chanVars,
                   listener, inbox, closer, attempt, calls, outcomes,
                   lastErr, retErr, op, envVars, activeSent, terminalSent>>

(* ------------------------- syncRepoWithRetry -------------------------- *)
\* Loop condition of syncRepoWithRetry: attempt <= m.Config.RetryAttempts.
LoopCondOneFewer(a) == a < Config.RetryAttempts

LoopCond(a) == a <= Config.RetryAttempts

\* cloneRepo / fetchRepo wrap the cause with the operation and repository.
WrapErr(operation, name, cause, k) ==
    MkErr(<<"failed", "to", operation, name>> \o cause, k)

\* What syncRepoWithRetry does with a failed attempt's error: break on a
\* non-retryable error, otherwise attempt++ and test the loop condition;
\* after the loop it returns lastErr.
AfterFailureKeepFirst(i, err) ==
    /\ lastErr' = [lastErr EXCEPT ![i] = IF lastErr[i] = NilErr THEN err ELSE @]
    /\ IF isNonRetryableError(err)
       THEN /\ retErr' = [retErr EXCEPT ![i] = lastErr'[i]]
            /\ wpc' = [wpc EXCEPT ![i] = "sendFinal"]
            /\ UNCHANGED attempt
       ELSE /\ attempt' = [attempt EXCEPT ![i] = @ + 1]
            /\ IF LoopCond(attempt[i] + 1)
               THEN /\ wpc' = [wpc EXCEPT ![i] = "delay"]
                    /\ UNCHANGED retErr
               ELSE /\ retErr' = [retErr EXCEPT ![i] = lastErr'[i]]
                    /\ wpc' = [wpc EXCEPT ![i] = "sendFinal"]

AfterFailure(i, err) ==
    /\ lastErr' = [lastErr EXCEPT ![i] = err]
    /\ IF isNonRetryableError(err)
       THEN /\ retErr' = [retErr EXCEPT ![i] = err]
            /\ wpc' = [wpc EXCEPT ![i] = "sendFinal"]
            /\ UNCHANGED attempt
       ELSE /\ attempt' = [attempt EXCEPT ![i] = @ + 1]
            /\ IF LoopCond(attempt[i] + 1)
               THEN /\ wpc' = [wpc EXCEPT ![i] = "delay"]
                    /\ UNCHANGED retErr
               ELSE /\ retErr' = [retErr EXCEPT ![i] = err]
                    /\ wpc' = [wpc EXCEPT ![i] = "sendFinal"]

SyncSucceedsReleasingSlot(i) ==
    /\ wpc[i] = "syncing"
    /\ outcomes' = [outcomes EXCEPT ![i] = Append(@, NilErr)]
    /\ retErr' = [retErr EXCEPT ![i] = NilErr]
    /\ exists' = [exists EXCEPT ![NameOf(i)] = TRUE]
    /\ op' = [op EXCEPT ![i] = "none"]
    /\ wpc' = [wpc EXCEPT ![i] = "sendFinal"]
    /\ semaphore' = semaphore - 1
    /\ slot' = [slot EXCEPT ![i] = FALSE]
    /\ UNCHANGED <<phase, fetchedMsg, modelVars, cancelled, program, chanVars,
                   listener, inbox, wg, closer, attempt, calls, lastErr,
                   activeSent, terminalSent, runVars, callVars>>

\* The external command succeeds: syncRepo returns nil and
\* syncRepoWithRetry returns nil.
SyncSucceeds(i) ==
    /\ wpc[i] = "syncing"
    /\ outcomes' = [outcomes EXCEPT ![i] = Append(@, NilErr)]
    /\ retErr' = [retErr EXCEPT ![i] = NilErr]
    /\ exists' = [exists EXCEPT ![NameOf(i)] = TRUE]
    /\ op' = [op EXCEPT ![i] = "none"]
    /\ wpc' = [wpc EXCEPT ![i] = "sendFinal"]
    /\ UNCHANGED <<phase, fetchedMsg, modelVars, cancelled, program, chanVars,
                   listener, inbox, poolVars, slot, attempt, calls, lastErr,
                   activeSent, terminalSent, runVars, callVars>>

FailureCausesOwnTimeoutOnly(i) ==
    IF wpc[i] = "refused" THEN {CanceledCause} ELSE causes

\* What the command of the attempt in progress can fail with.  Its context
\* is context.WithTimeout(m.ctx, Timeout): the process is killed when the
\* timeout expires (KilledCause is among causes in the runs where commands
\* can take that long) and when m.ctx is cancelled.
FailureCauses(i) ==
    IF wpc[i] = "refused" THEN {CanceledCause}
    ELSE causes \cup (IF cancelled THEN {KilledCause} ELSE {})

\* A failure that cancels the whole run, as an errgroup would.
SyncFailsCancellingRun(i) ==
    /\ wpc[i] \in {"syncing", "refused"}
    /\ \E cause \in FailureCauses(i) :
         LET err == WrapErr(op[i], NameOf(i), cause, calls[i]) IN
           /\ outcomes' = [outcomes EXCEPT ![i] = Append(@, err)]
           /\ AfterFailure(i, err)
    /\ op' = [op EXCEPT ![i] = "none"]
    /\ cancelled' = TRUE
    /\ UNCHANGED <<phase, fetchedMsg, modelVars, program, chanVars,
                   listener, inbox, poolVars, slot, calls, envVars,
                   activeSent, terminalSent>>

\* The external command fails; it was not started at all when the context
\* was done before the call.
SyncFails(i) ==
    /\ wpc[i] \in {"syncing", "refused"}
    /\ \E cause \in FailureCauses(i) :
         LET err == WrapErr(op[i], NameOf(i), cause, calls[i]) IN
           /\ outcomes' = [outcomes EXCEPT ![i] = Append(@, err)]
           /\ AfterFailure(i, err)
    /\ op' = [op EXCEPT ![i] = "none"]
    /\ UNCHANGED <<phase, fetchedMsg, modelVars, cancelled, program, chanVars,
                   listener, inbox, poolVars, slot, calls, envVars,
                   activeSent, terminalSent>>

DelayElapsedResendingStatus(i) ==
    /\ wpc[i] = "delay"
    /\ ~cancelled
    /\ CanSend
    /\ Emit(i, StatusMsg(NameOf(i), InitialStatus(i), NilErr))
    /\ wpc' = [wpc EXCEPT ![i] = "retry"]
    /\ UNCHANGED <<phase, fetchedMsg, modelVars, cancelled, program, chanClosed,
                   listener, inbox, poolVars, slot, attempt, calls, outcomes,
                   lastErr, retErr, op, envVars>>

\* select { case <-time.After(m.Config.RetryDelay): } before a retry.  The
\* timer's channel becomes ready RetryDelay (one second) after the select
\* is entered: a worker that finds the context done on entering the select,
\* or is woken from it by the cancellation, does not take this case.
DelayElapsed(i) ==
    /\ wpc[i] = "delay"
    /\ ~cancelled
    /\ wpc' = [wpc EXCEPT ![i] = "retry"]
    /\ UNCHANGED <<phase, fetchedMsg, modelVars, cancelled, program, chanVars,
                   listener, inbox, poolVars, slot, attempt, calls, outcomes,
                   lastErr, retErr, op, envVars, activeSent, terminalSent>>

\* err := m.syncRepo(repoName) of an attempt after the first.
Retry(i) ==
    /\ wpc[i] = "retry"
    /\ StartSync(i)
    /\ UNCHANGED <<phase, fetchedMsg, modelVars, cancelled, program, chanVars,
                   listener, inbox, poolVars, slot, attempt, outcomes,
                   lastErr, retErr, envVars, activeSent, terminalSent>>

DelayCancelledStillRetrying(i) ==
    /\ wpc[i] = "delay"
    /\ cancelled
    /\ wpc' = [wpc EXCEPT ![i] = "retry"]
    /\ UNCHANGED <<phase, fetchedMsg, modelVars, cancelled, program, chanVars,
                   listener, inbox, poolVars, slot, attempt, calls, outcomes,
                   lastErr, retErr, op, envVars, activeSent, terminalSent>>

\* select { case <-m.ctx.Done(): return m.ctx.Err() } before a retry.
DelayCancelled(i) ==
    /\ wpc[i] = "delay"
    /\ cancelled
    /\ retErr' = [retErr EXCEPT ![i] = CtxCanceled]
    /\ wpc' = [wpc EXCEPT ![i] = "sendFinal"]
    /\ UNCHANGED <<phase, fetchedMsg, modelVars, cancelled, program, chanVars,
                   listener, inbox, poolVars, slot, attempt, calls, outcomes,
                   lastErr, op, envVars, activeSent, terminalSent>>

(* -------------------- test mode: simulateRepoSync --------------------- *)
\* case <-progressTicker.C: the worker goroutine stores the progress of the
\* simulated sync in the record of its repository (Progress counts ticks,
\* MaxTicks standing for 1.0, where it stays); TransferSpeed and Size are
\* stored with it.  The break that follows leaves the select only: the
\* loop goes on.
SimulateTick(i) ==
    /\ wpc[i] = "simulating"
    /\ LET k == CHOOSE j \in 1..Len(Repositories) :
                  /\ Repositories[j].Name = NameOf(i)
                  /\ \A h \in 1..(j - 1) : Repositories[h].Name # NameOf(i)
       IN Repositories' = [Repositories EXCEPT ![k].Progress =
                             IF @ < MaxTicks THEN @ + 1 ELSE @]
    /\ UNCHANGED <<phase, fetchedMsg, Done, clock, ShowCompleted, cancelled,
                   program, chanVars, listener, inbox, poolVars, workerVars,
                   envVars>>

\* case <-m.ctx.Done(): return m.ctx.Err(), the only way out of the loop.
SimulateCancelled(i) ==
    /\ wpc[i] = "simulating"
    /\ cancelled
    /\ outcomes' = [outcomes EXCEPT ![i] = Append(@, CtxCanceled)]
    /\ AfterFailure(i, CtxCanceled)
    /\ UNCHANGED <<phase, fetchedMsg, modelVars, cancelled, program, chanVars,
                   listener, inbox, poolVars, slot, calls, op, envVars,
                   activeSent, terminalSent>>

(* ----------------------- final update and return ---------------------- *)
FinalStatusIgnoringCancel(err) ==
    IF err # NilErr /\ err # CtxCanceled THEN StatusFailed ELSE StatusCompleted

\* status := StatusCompleted; if err != nil { status = StatusFailed }
FinalStatus(err) == IF err # NilErr THEN StatusFailed ELSE StatusCompleted

\* select { case m.statusChan <- final status }
SendFinal(i) ==
    /\ wpc[i] = "sendFinal"
    /\ CanSend
    /\ Emit(i, StatusMsg(NameOf(i), FinalStatus(retErr[i]), retErr[i]))
    /\ wpc' = [wpc EXCEPT ![i] = "exit"]
    /\ UNCHANGED <<phase, fetchedMsg, modelVars, cancelled, program, chanClosed,
                   listener, inbox, poolVars, slot, attempt, calls, outcomes,
                   lastErr, retErr, op, envVars>>

\* A final send without the ctx.Done() case: nothing to take while the
\* buffer is full.
SendFinalBlocking(i) ==
    /\ wpc[i] = "sendFinal"
    /\ FALSE
    /\ UNCHANGED vars

\* select { case <-m.ctx.Done(): return } at the final send.
SendFinalCancelled(i) ==
    /\ wpc[i] = "sendFinal"
    /\ cancelled
    /\ Return(i)
    /\ UNCHANGED <<phase, fetchedMsg, modelVars, cancelled, program, chanVars,
                   listener, inbox, closer, attempt, calls, outcomes,
                   lastErr, retErr, op, envVars, activeSent, terminalSent>>

\* The goroutine function ends after the final send: the deferred calls run.
WorkerReturn(i) ==
    /\ wpc[i] = "exit"
    /\ Return(i)
    /\ UNCHANGED <<phase, fetchedMsg, modelVars, cancelled, program, chanVars,
                   listener, inbox, closer, attempt, calls, outcomes,
                   lastErr, retErr, op, envVars, activeSent, terminalSent>>

\* A closing goroutine that does not wait for the last worker.
CloseChannelEarly ==
    /\ closer = "waiting"
    /\ wg <= 1
    /\ closer' = "closed"
    /\ chanClosed' = TRUE
    /\ UNCHANGED <<phase, fetchedMsg, modelVars, cancelled, program, statusChan,
                   listener, inbox, semaphore, wg, workerVars, envVars>>

\* go func() { wg.Wait(); close(m.statusChan) }()
CloseChannel ==
    /\ closer = "waiting"
    /\ wg = 0
    /\ closer' = "closed"
    /\ chanClosed' = TRUE
    /\ UNCHANGED <<phase, fetchedMsg, modelVars, cancelled, program, statusChan,
                   listener, inbox, semaphore, wg, workerVars, envVars>>

(* ----------------------------- aggregator ----------------------------- *)
countCompletedCountingStarted(repos) ==
    Cardinality({i \in 1..Len(repos) : repos[i].Status # StatusPending})

countCompleted(repos) ==
    Cardinality({i \in 1..Len(repos) : IsTerminal(repos[i].Status)})

countFailed(repos) ==
    Cardinality({i \in 1..Len(repos) : repos[i].Status = StatusFailed})

\* A count of the records that are not settled, Pending ones included.
countActiveCountingPending(repos) ==
    Cardinality({i \in 1..Len(repos) : ~IsTerminal(repos[i].Status)})

countActive(repos) ==
    Cardinality({i \in 1..Len(repos) : IsActive(repos[i].Status)})

HeaderStatsOkIsCompleted(repos) ==
    [ok |-> countCompleted(repos), err |-> countFailed(repos),
     active |-> countActive(repos), total |-> Len(repos)]

\* The counts buildCompactHeader displays: success := completed - failed.
HeaderStats(repos) ==
    [ok |-> countCompleted(repos) - countFailed(repos),
     err |-> countFailed(repos),
     active |-> countActive(repos), total |-> Len(repos)]

\* Index of the first record named name, 0 when there is none.
FirstIndex(repos, name) ==
    IF \E i \in 1..Len(repos) : repos[i].Name = name
    THEN CHOOSE i \in 1..Len(repos) :
           /\ repos[i].Name = name
           /\ \A j \in 1..(i - 1) : repos[j].Name # name
    ELSE 0

UpdatedRecordEndOnEveryUpdate(r, status, err, now) ==
    [r EXCEPT
       !.Status = status,
       !.Error = err,
       !.StartTime = IF IsActive(status) /\ r.StartTime = 0 THEN now ELSE @,
       !.EndTime = now,
       !.RetryCount = IF status = StatusFailed /\ err # NilErr THEN @ + 1 ELSE @]

\* The record updateRepositoryStatus leaves at the matching index.
UpdatedRecord(r, status, err, now) ==
    [r EXCEPT
       !.Status = status,
       !.Error = err,
       !.StartTime = IF IsActive(status) /\ r.StartTime = 0 THEN now ELSE @,
       !.EndTime = IF IsTerminal(status) THEN now ELSE @,
       !.RetryCount = IF status = StatusFailed /\ err # NilErr THEN @ + 1 ELSE @]

\* An update that adds a record for a name it does not find.
updateRepositoryStatusUpsert(repos, name, status, err, now) ==
    LET k == FirstIndex(repos, name) IN
      IF k = 0
      THEN Append(repos, UpdatedRecord(NewRepository(name, StatusPending, NilErr),
                                       status, err, now))
      ELSE [repos EXCEPT ![k] = UpdatedRecord(repos[k], status, err, now)]

\* An update whose loop does not stop at the first match.
updateRepositoryStatusNoBreak(repos, name, status, err, now) ==
    [k \in 1..Len(repos) |->
       IF repos[k].Name = name
       THEN UpdatedRecord(repos[k], status, err, now) ELSE repos[k]]

updateRepositoryStatus(repos, name, status, err, now) ==
    LET k == FirstIndex(repos, name) IN
      IF k = 0 THEN repos
      ELSE [repos EXCEPT ![k] = UpdatedRecord(repos[k], status, err, now)]

\* A completion test that only looks for records in progress.
IsCompleteNoneActive(repos) == countActive(repos) = 0

\* Model.Update's completion test: completed == total.
IsCompleteOffByOne(repos) == countCompleted(repos) >= Len(repos) - 1

IsComplete(repos) == countCompleted(repos) = Len(repos)

(* ------------------------ listener and Update ------------------------- *)
\* A listener that stays on the channel after it has returned an update.
ListenerReceiveStayingArmed ==
    /\ listener = "armed"
    /\ statusChan # <<>>
    /\ inbox' = Head(statusChan)
    /\ statusChan' = Tail(statusChan)
    /\ UNCHANGED listener
    /\ UNCHANGED <<phase, fetchedMsg, modelVars, cancelled, program, chanClosed,
                   poolVars, workerVars, envVars>>

\* listenForUpdates: case update, ok := <-m.statusChan with ok true.
ListenerReceive ==
    /\ listener = "armed"
    /\ statusChan # <<>>
    /\ inbox' = Head(statusChan)
    /\ statusChan' = Tail(statusChan)
    /\ listener' = "idle"
    /\ UNCHANGED <<phase, fetchedMsg, modelVars, cancelled, program, chanClosed,
                   poolVars, workerVars, envVars>>

\* listenForUpdates returns nil: the channel is closed and drained, or the
\* context is done.
ListenerReturnsNil ==
    /\ listener = "armed"
    /\ \/ chanClosed /\ statusChan = <<>>
       \/ cancelled
    /\ listener' = "idle"
    /\ UNCHANGED <<phase, fetchedMsg, modelVars, cancelled, program, chanVars,
                   inbox, poolVars, workerVars, envVars>>

\* Model.Update, case repositoryStatusMsg.  (After tea.Quit the event loop
\* handles the messages queued before the quit message and then ends: the
\* handler may still run in "quitting", and need not.)
UpdateRepositoryStatus ==
    /\ inbox # NoMsg
    /\ clock' = clock + 1
    /\ Repositories' = updateRepositoryStatus(Repositories, inbox.Name,
                                              inbox.Status, inbox.Error, clock')
    /\ IF IsComplete(Repositories')
       THEN Done' = TRUE /\ UNCHANGED listener
       ELSE listener' = "armed" /\ UNCHANGED Done
    /\ inbox' = NoMsg
    /\ UNCHANGED <<phase, fetchedMsg, ShowCompleted, cancelled, program,
                   chanVars, poolVars, workerVars, envVars>>

\* Model.Update, case tea.KeyMsg "q" / "ctrl+c": m.cancel(), tea.Quit.
KeyQuit ==
    /\ program = "running"
    /\ cancelled' = TRUE
    /\ program' = "quitting"
    /\ UNCHANGED <<phase, fetchedMsg, modelVars, chanVars, listener, inbox,
                   poolVars, workerVars, envVars>>

\* A "c" key that drops the settled records instead of hiding them.
KeyToggleCompletedDroppingSettled ==
    /\ program = "running"
    /\ ShowCompleted' = ~ShowCompleted
    /\ Repositories' = SelectSeq(Repositories, LAMBDA r : ~IsTerminal(r.Status))
    /\ UNCHANGED <<phase, fetchedMsg, Done, clock, cancelled,
                   program, chanVars, listener, inbox, poolVars, workerVars,
                   envVars>>

\* A "c" key that also cancels the run.
KeyToggleCompletedCancelling ==
    /\ program = "running"
    /\ ShowCompleted' = ~ShowCompleted
    /\ cancelled' = TRUE
    /\ UNCHANGED <<phase, fetchedMsg, Repositories, Done, clock,
                   program, chanVars, listener, inbox, poolVars, workerVars,
                   envVars>>

\* Model.Update, case tea.KeyMsg "c".
KeyToggleCompleted ==
    /\ program = "running"
    /\ ShowCompleted' = ~ShowCompleted
    /\ UNCHANGED <<phase, fetchedMsg, Repositories, Done, clock, cancelled,
                   program, chanVars, listener, inbox, poolVars, workerVars,
                   envVars>>

\* The tick scheduled when the run is done delivers tea.Quit.
AutoQuit ==
    /\ Done
    /\ program = "running"
    /\ program' = "quitting"
    /\ UNCHANGED <<phase, fetchedMsg, modelVars, cancelled, chanVars, listener,
                   inbox, poolVars, workerVars, envVars>>

(* -------------------------------- main -------------------------------- *)
\* What p.Run() returns once tea.Quit has ended the event loop: no error.
RunResult == NilErr

\* main: a non-nil error of p.Run() is fatal (exit status 1), otherwise
\* main returns (exit status 0).
ExitStatus(err) == IF err # NilErr THEN 1 ELSE 0

(* --------------------------- specifications --------------------------- *)
\* Every step of the engine other than a key press.
EngineStep ==
    \/ FetchRepositories
    \/ UpdateRepositoriesFetched
    \/ SyncRepositoriesCmd
    \/ \E i \in DOMAIN wpc : Acquire(i)
    \/ \E i \in DOMAIN wpc : AcquireCancelled(i)
    \/ \E i \in DOMAIN wpc : SendInitial(i)
    \/ \E i \in DOMAIN wpc : SendInitialCancelled(i)
    \/ \E i \in DOMAIN wpc : SyncSucceeds(i)
    \/ \E i \in DOMAIN wpc : SyncFails(i)
    \/ \E i \in DOMAIN wpc : DelayElapsed(i)
    \/ \E i \in DOMAIN wpc : Retry(i)
    \/ \E i \in DOMAIN wpc : DelayCancelled(i)
    \/ \E i \in DOMAIN wpc : SendFinal(i)
    \/ \E i \in DOMAIN wpc : SendFinalCancelled(i)
    \/ \E i \in DOMAIN wpc : WorkerReturn(i)
    \/ CloseChannel
    \/ ListenerReceive
    \/ ListenerReturnsNil
    \/ UpdateRepositoryStatus
    \/ AutoQuit

Next ==
    \/ EngineStep
    \/ KeyQuit

Spec == Init /\ [][Next]_vars

\* The run with the "c" key as well.
NextWithKeys ==
    \/ Next
    \/ KeyToggleCompleted

KeySpec == Init /\ [][NextWithKeys]_vars

\* Runs in test mode: TestRepoCount generated repositories, every sync
\* simulated.
TestScenarios ==
    { sc \in [repos : 1..MaxRepos, conc : 1..MaxConc, cap : 1..MaxCap,
              retry : 0..MaxRetry] : sc.retry <= RetryBudget(sc.repos) }

TestInit ==
    /\ InitEngine
    /\ \E sc \in TestScenarios :
         /\ Config = [DefaultSyncConfig EXCEPT !.MaxConcurrency = sc.conc,
                                               !.RetryAttempts = sc.retry]
         /\ statusCap = sc.cap
         /\ TestRepoCount = sc.repos
    /\ TestMode = TRUE
    /\ remote = 0
    /\ causes = {}
    /\ exists = [n \in AllNames |-> FALSE]
    /\ errArg = NilErr
    /\ verdict = <<>>
    /\ updArg = NoMsg

\* The steps a run in test mode can take.
TestNext ==
    \/ FetchRepositories
    \/ UpdateRepositoriesFetched
    \/ SyncRepositoriesCmd
    \/ \E i \in DOMAIN wpc : Acquire(i)
    \/ \E i \in DOMAIN wpc : AcquireCancelled(i)
    \/ \E i \in DOMAIN wpc : SendInitial(i)
    \/ \E i \in DOMAIN wpc : SendInitialCancelled(i)
    \/ \E i \in DOMAIN wpc : SimulateTick(i)
    \/ \E i \in DOMAIN wpc : SimulateCancelled(i)
    \/ \E i \in DOMAIN wpc : DelayCancelled(i)
    \/ \E i \in DOMAIN wpc : SendFinal(i)
    \/ \E i \in DOMAIN wpc : SendFinalCancelled(i)
    \/ \E i \in DOMAIN wpc : WorkerReturn(i)
    \/ CloseChannel
    \/ ListenerReceive
    \/ ListenerReturnsNil
    \/ UpdateRepositoryStatus
    \/ KeyQuit

TestSpec == TestInit /\ [][TestNext]_vars

\* A run in test mode in which the quit key is never pressed: the steps such
\* a run takes, each taken when it can be (every goroutine and command is
\* scheduled and the progress ticker keeps firing).
TestNextNoCancel ==
    \/ FetchRepositories
    \/ UpdateRepositoriesFetched
    \/ SyncRepositoriesCmd
    \/ \E i \in DOMAIN wpc : Acquire(i)
    \/ \E i \in DOMAIN wpc : SendInitial(i)
    \/ \E i \in DOMAIN wpc : SimulateTick(i)
    \/ ListenerReceive
    \/ UpdateRepositoryStatus

TestLiveSpec ==
    /\ TestInit
    /\ [][TestNextNoCancel]_vars
    /\ WF_vars(FetchRepositories)
    /\ WF_vars(UpdateRepositoriesFetched)
    /\ WF_vars(SyncRepositoriesCmd)
    /\ \A i \in 1..Len(RepoNames) :
         /\ WF_vars(i \in DOMAIN wpc /\ Acquire(i))
         /\ WF_vars(i \in DOMAIN wpc /\ SendInitial(i))
         /\ WF_vars(i \in DOMAIN wpc /\ SimulateTick(i))
    /\ WF_vars(ListenerReceive)
    /\ WF_vars(UpdateRepositoryStatus)

\* isNonRetryableError called on its own, as TestIsNonRetryableError does:
\* on nil and on errors of any message of up to MaxWords words.
Words == {"authentication", "permission", "denied", "not", "found",
          "repository", "network", "timeout", "failed", "something",
          "went", "wrong"}

Messages == UNION {[1..n -> Words] : n \in 1..MaxWords}

ErrInputs == {NilErr} \cup {MkErr(m, 0) : m \in Messages}

ClassifyInit ==
    /\ InitRun
    /\ errArg \in ErrInputs
    /\ verdict = <<>>
    /\ updArg = NoMsg

Classify ==
    /\ verdict = <<>>
    /\ verdict' = <<isNonRetryableError(errArg)>>
    /\ UNCHANGED <<phase, fetchedMsg, modelVars, cancelled, program, chanVars,
                   listener, inbox, poolVars, workerVars, exists, runVars,
                   errArg, updArg>>

ClassifySpec == ClassifyInit /\ [][Classify]_vars

\* updateRepositoryStatus called on its own, as
\* TestModel_UpdateRepositoryStatus does: on a model from NewModel whose
\* Repositories the caller has assigned, up to MaxUpdates times.
AssignedRepositories ==
    UNION {{[i \in 1..n |-> NewRepository(f[i], StatusPending, NilErr)] :
              f \in [1..n -> {RepoNames[1], RepoNames[2]}]} : n \in 1..MaxRepos}

\* The calls made: for a name that records can have and for one that no
\* record has, any status, with and without an error.
UpdateInputs ==
    {StatusMsg(n, st, e) :
       n \in {RepoNames[1], RepoNames[2], RepoNames[3]},
       st \in {StatusPending, StatusCloning, StatusFetching, StatusCompleted,
               StatusFailed},
       e \in {NilErr, MkErr(TimeoutCause, 0)}}

\* The model NewModel returns.
UpdateInit ==
    /\ InitEngine
    /\ Config = DefaultSyncConfig
    /\ statusCap = 100
    /\ remote = 0
    /\ causes = {}
    /\ exists = [n \in AllNames |-> FALSE]
    /\ TestMode = FALSE
    /\ TestRepoCount = 0
    /\ errArg = NilErr
    /\ verdict = <<>>
    /\ updArg = NoMsg

\* model.Repositories = []Repository{...}
AssignRepositories ==
    /\ Repositories = <<>>
    /\ clock = 0
    /\ Repositories' \in AssignedRepositories
    /\ UNCHANGED <<phase, fetchedMsg, Done, clock, ShowCompleted, cancelled,
                   program, chanVars, listener, inbox, poolVars, workerVars,
                   envVars>>

\* model.updateRepositoryStatus(name, status, err)
CallUpdateRepositoryStatus ==
    /\ clock < MaxUpdates
    /\ \E u \in UpdateInputs :
         /\ updArg' = u
         /\ clock' = clock + 1
         /\ Repositories' = updateRepositoryStatus(Repositories, u.Name,
                                                   u.Status, u.Error, clock')
    /\ UNCHANGED <<phase, fetchedMsg, Done, ShowCompleted, cancelled, program,
                   chanVars, listener, inbox, poolVars, workerVars, exists,
                   runVars, errArg, verdict>>

UpdateNext ==
    \/ AssignRepositories
    \/ CallUpdateRepositoryStatus

UpdateSpec == UpdateInit /\ [][UpdateNext]_vars

\* A run in which the quit key is never pressed: the context stays live, so
\* no select takes its ctx.Done() branch.
RunStep(i) ==
    \/ Acquire(i)
    \/ SendInitial(i)
    \/ SyncSucceeds(i)
    \/ SyncFails(i)
    \/ DelayElapsed(i)
    \/ Retry(i)
    \/ SendFinal(i)
    \/ WorkerReturn(i)

WorkerRuns(i) == i \in DOMAIN wpc /\ RunStep(i)

NextNoCancel ==
    \/ FetchRepositories
    \/ UpdateRepositoriesFetched
    \/ SyncRepositoriesCmd
    \/ \E i \in DOMAIN wpc : Acquire(i)
    \/ \E i \in DOMAIN wpc : SendInitial(i)
    \/ \E i \in DOMAIN wpc : SyncSucceeds(i)
    \/ \E i \in DOMAIN wpc : SyncFails(i)
    \/ \E i \in DOMAIN wpc : DelayElapsed(i)
    \/ \E i \in DOMAIN wpc : Retry(i)
    \/ \E i \in DOMAIN wpc : SendFinal(i)
    \/ \E i \in DOMAIN wpc : WorkerReturn(i)
    \/ CloseChannel
    \/ ListenerReceive
    \/ ListenerReturnsNil
    \/ UpdateRepositoryStatus
    \/ AutoQuit

\* Scheduling: every command and goroutine that can run does run (the Go
\* scheduler and the tea runtime), every external call returns and every
\* retry timer fires.
LiveSpec ==
    /\ Init
    /\ [][NextNoCancel]_vars
    /\ WF_vars(FetchRepositories)
    /\ WF_vars(UpdateRepositoriesFetched)
    /\ WF_vars(SyncRepositoriesCmd)
    /\ \A i \in 1..Len(RepoNames) : WF_vars(WorkerRuns(i))
    /\ WF_vars(CloseChannel)
    /\ WF_vars(ListenerReceive)
    /\ WF_vars(ListenerReturnsNil)
    /\ WF_vars(UpdateRepositoryStatus)

\* Any step of worker goroutine i, the ctx.Done() branches included.
WorkerStep(i) ==
    \/ RunStep(i)
    \/ AcquireCancelled(i)
    \/ SendInitialCancelled(i)
    \/ DelayCancelled(i)
    \/ SendFinalCancelled(i)

WorkerMoves(i) == i \in DOMAIN wpc /\ WorkerStep(i)

\* Scheduling of the worker pool alone: a goroutine that can take a step
\* takes one, every external call returns and every retry timer fires.
\* Nothing is assumed of the listener, the event loop or the keyboard.
PoolLiveSpec ==
    /\ Init
    /\ [][Next]_vars
    /\ \A i \in 1..Len(RepoNames) : WF_vars(WorkerMoves(i))
    /\ WF_vars(CloseChannel)

(* ------------------------------ properties ---------------------------- *)
Holders == {i \in DOMAIN wpc : slot[i]}
Finished(i) == wpc[i] \in {"sendFinal", "exit", "returned"}

\* The updates still to be received, in the order the listener delivers
\* them: the one in the listener's hand, then the channel buffer.
Pipeline == (IF inbox = NoMsg THEN <<>> ELSE <<inbox>>) \o statusChan

\* C1: at every instant, cancelled or not, at most MaxConcurrency workers
\* hold an admission slot (the semaphore counts exactly those workers), and
\* a worker that is executing a sync attempt holds a slot.
C1_BoundedAdmission ==
    /\ Cardinality(Holders) <= Config.MaxConcurrency
    /\ semaphore = Cardinality(Holders)
    /\ \A i \in DOMAIN wpc : wpc[i] \in {"syncing", "refused", "delay", "retry"} => slot[i]

\* C1's case: after cancellation the pool is full, one worker is syncing
\* and another still waits for a slot.
C1_Witness ==
    /\ cancelled
    /\ Cardinality(Holders) = Config.MaxConcurrency
    /\ \E i \in DOMAIN wpc : wpc[i] = "syncing"
    /\ \E i \in DOMAIN wpc : wpc[i] = "acquire"

\* C2: in a run without cancellation the aggregator never sees more than
\* MaxConcurrency records in Cloning or Fetching.
C2_ActiveBounded ==
    ~cancelled => countActive(Repositories) <= Config.MaxConcurrency

\* C2's case: more repositories than slots, the aggregator shows a full
\* pool and a Pending record whose worker waits for a slot.
C2_Witness ==
    /\ ~cancelled
    /\ Len(Repositories) > Config.MaxConcurrency
    /\ Config.MaxConcurrency > 1
    /\ countActive(Repositories) = Config.MaxConcurrency
    /\ \E i \in DOMAIN wpc :
         wpc[i] = "acquire" /\ Repositories[i].Status = StatusPending

\* C3: each worker sends at most one active-state update and at most one
\* terminal update however many attempts it makes, the terminal one after
\* the active one; and the listener receives them in that order: an active
\* update of a name is never behind a terminal update of that name, and a
\* terminal update with no active update ahead of it finds the record
\* already started (its active update has been applied).
C3_OneActiveThenOneTerminal ==
    /\ \A i \in DOMAIN wpc :
         /\ activeSent[i] <= 1
         /\ terminalSent[i] <= 1
         /\ terminalSent[i] = 1 => activeSent[i] = 1
    /\ \A p \in 1..Len(Pipeline) :
         IsTerminal(Pipeline[p].Status) =>
           /\ \A q \in (p + 1)..Len(Pipeline) :
                Pipeline[q].Name # Pipeline[p].Name
           /\ \/ \E q \in 1..(p - 1) :
                   /\ Pipeline[q].Name = Pipeline[p].Name
                   /\ IsActive(Pipeline[q].Status)
              \/ \E i \in 1..Len(Repositories) :
                   /\ Repositories[i].Name = Pipeline[p].Name
                   /\ IsActive(Repositories[i].Status)
                   /\ Repositories[i].StartTime > 0

\* C3's case: a worker retried (two or more attempts) and both of its
\* updates have been sent and applied.
C3_Witness ==
    \E i \in DOMAIN wpc :
      /\ calls[i] >= 2
      /\ activeSent[i] = 1
      /\ terminalSent[i] = 1
      /\ IsTerminal(Repositories[i].Status)
      /\ Repositories[i].StartTime > 0

\* C4: whenever Done is true every record is Completed or Failed, and each
\* listed name has exactly one record, which is settled.
C4_DoneMeansAllSettled ==
    Done =>
      /\ \A i \in 1..Len(Repositories) : IsTerminal(Repositories[i].Status)
      /\ \A k \in 1..Len(fetchedMsg) :
           Cardinality({i \in 1..Len(Repositories) :
                          /\ Repositories[i].Name = fetchedMsg[k].Name
                          /\ IsTerminal(Repositories[i].Status)}) = 1

\* C4's case: a finished run of several repositories, some Completed and
\* some Failed.
C4_Witness ==
    /\ Done
    /\ Len(Repositories) >= 2
    /\ \E i \in 1..Len(Repositories) : Repositories[i].Status = StatusCompleted
    /\ \E i \in 1..Len(Repositories) : Repositories[i].Status = StatusFailed

\* C5: in a run without cancellation whose listing returns at least one
\* repository and whose external calls all return, Done eventually becomes
\* true, whatever the channel capacity, MaxConcurrency and the number of
\* repositories.
C5_EventuallyDone == (remote >= 1) ~> Done

\* C5's case: a finished run that sent more updates than the channel holds
\* and had more repositories than slots.
C5_Witness ==
    /\ Done
    /\ ~cancelled
    /\ remote >= 2
    /\ 2 * remote > statusCap
    /\ remote > Config.MaxConcurrency

\* C6 as stated: once Done, countCompleted() + countFailed() = total.
C6_Original ==
    Done => countCompleted(Repositories) + countFailed(Repositories)
              = Len(Repositories)

\* C6, amended: once Done, countCompleted() alone equals the total (it
\* already counts the Failed records): the records with status Completed
\* plus countFailed() make up the total.
C6_SettledCountIsTotal ==
    Done =>
      /\ countCompleted(Repositories) = Len(Repositories)
      /\ Cardinality({i \in 1..Len(Repositories) :
                        Repositories[i].Status = StatusCompleted})
           + countFailed(Repositories) = Len(Repositories)

\* C6's case: a finished run with a failed repository and a completed one.
C6_Witness ==
    /\ Done
    /\ countFailed(Repositories) >= 1
    /\ countFailed(Repositories) < Len(Repositories)

\* C7: once the repository list has been received, Done is true exactly
\* when countCompleted() equals the number of records.
C7_DoneIffAllSettled ==
    phase \in {"launch", "running"} =>
      (Done <=> countCompleted(Repositories) = Len(Repositories))

(* The failure cause of an error of syncRepo, and its class as the Retry   *)
(* Policy defines it (authentication, permission, not found: no retry).    *)
CauseOf(err) == SubSeq(err.msg, 5, Len(err.msg))
NonRetryableCauses == {AuthCause, PermissionCause, NotFoundCause}
FailedRetryably(e) == e # NilErr /\ CauseOf(e) \notin NonRetryableCauses
FailedNonRetryably(e) == e # NilErr /\ CauseOf(e) \in NonRetryableCauses
AllRetryable(i) ==
    /\ outcomes[i] # <<>>
    /\ \A k \in 1..Len(outcomes[i]) : FailedRetryably(outcomes[i][k])

\* C8: a worker never calls syncRepo more than RetryAttempts + 1 times;
\* without cancellation, after k <= RetryAttempts retryable failures it
\* goes on to attempt k + 1, and when an attempt succeeds syncRepoWithRetry
\* returns nil with exactly that many attempts made.
C8_RetriesUpToBudget ==
    \A i \in DOMAIN wpc :
      /\ calls[i] <= Config.RetryAttempts + 1
      /\ ~cancelled =>
           /\ (AllRetryable(i) /\ Len(outcomes[i]) <= Config.RetryAttempts)
                => /\ wpc[i] \in {"delay", "retry", "syncing"}
                   /\ calls[i] \in {Len(outcomes[i]), Len(outcomes[i]) + 1}
           /\ (outcomes[i] # <<>> /\ outcomes[i][Len(outcomes[i])] = NilErr)
                => /\ Finished(i)
                   /\ retErr[i] = NilErr
                   /\ calls[i] = Len(outcomes[i])

\* C8's case: fail, fail, succeed with RetryAttempts = 2.
C8_Witness ==
    \E i \in DOMAIN wpc :
      /\ ~cancelled
      /\ Config.RetryAttempts = 2
      /\ Len(outcomes[i]) = 3
      /\ FailedRetryably(outcomes[i][1])
      /\ FailedRetryably(outcomes[i][2])
      /\ outcomes[i][3] = NilErr
      /\ wpc[i] = "returned"
      /\ retErr[i] = NilErr
      /\ calls[i] = 3

\* C9: an attempt that fails with a non-retryable error is the worker's
\* last attempt, and its error is what syncRepoWithRetry returns.
C9_NonRetryableStops ==
    \A i \in DOMAIN wpc :
      \A k \in 1..Len(outcomes[i]) :
        FailedNonRetryably(outcomes[i][k]) =>
          /\ k = Len(outcomes[i])
          /\ calls[i] = k
          /\ Finished(i)
          /\ retErr[i] = outcomes[i][k]

\* C9's case: the first attempt fails with "not found" although retries
\* were available, and the worker has returned after that one attempt.
C9_Witness ==
    \E i \in DOMAIN wpc :
      /\ Config.RetryAttempts >= 1
      /\ Len(outcomes[i]) = 1
      /\ CauseOf(outcomes[i][1]) = NotFoundCause
      /\ wpc[i] = "returned"
      /\ calls[i] = 1
      /\ retErr[i] = outcomes[i][1]

\* C10: without cancellation, when every attempt failed with a retryable
\* error and syncRepoWithRetry has returned, it made RetryAttempts + 1
\* attempts and returned the error of the last one.
C10_ExhaustedReturnsLastError ==
    \A i \in DOMAIN wpc :
      (~cancelled /\ Finished(i) /\ AllRetryable(i)) =>
        /\ calls[i] = Config.RetryAttempts + 1
        /\ Len(outcomes[i]) = Config.RetryAttempts + 1
        /\ retErr[i] = outcomes[i][Config.RetryAttempts + 1]
        /\ retErr[i].at = Config.RetryAttempts + 1

\* C10's case: three retryable failures with RetryAttempts = 2.
C10_Witness ==
    \E i \in DOMAIN wpc :
      /\ ~cancelled
      /\ Config.RetryAttempts = 2
      /\ wpc[i] = "returned"
      /\ AllRetryable(i)
      /\ Len(outcomes[i]) = 3
      /\ retErr[i].at = 3

\* C12: once the run is cancelled no worker sends an active-state update
\* (Cloning or Fetching) any more.
C12_NoNewActiveAfterCancel ==
    [][cancelled => \A i \in DOMAIN wpc : activeSent'[i] = activeSent[i]]_vars

\* C14: once the run is cancelled no worker begins a syncRepo call any
\* more, a first attempt or a retry.
C14_NoNewCallAfterCancel ==
    [][cancelled => \A i \in DOMAIN wpc : calls'[i] = calls[i]]_vars

AllReturned == \A i \in DOMAIN wpc : wpc[i] = "returned"

\* C13: once a launched run is cancelled, every worker goroutine
\* eventually returns and the status channel is closed, whether or not the
\* listener still consumes updates and however full the buffer is.
C13_CancelledPoolDrains ==
    (cancelled /\ phase = "running") ~> (AllReturned /\ chanClosed)

\* C13's case: the pool has drained after a cancellation although the
\* buffer is full and there is no listener any more.
C13_Witness ==
    /\ cancelled
    /\ phase = "running"
    /\ Len(Repositories) >= 2
    /\ Len(statusChan) = statusCap
    /\ listener = "idle"
    /\ inbox = NoMsg
    /\ ~Done
    /\ AllReturned
    /\ chanClosed
    /\ \E i \in DOMAIN wpc : calls[i] >= 1 /\ terminalSent[i] = 0

\* C15: a worker that is waiting out the retry delay when the run is
\* cancelled leaves the wait by returning the cancellation error, without
\* another syncRepo call; and the first attempt has no wait and no
\* cancellation check: a worker that has sent its initial status has begun
\* its first call, and the cancellation error is only ever returned after
\* at least one attempt.
C15_CancelDuringDelay ==
    [][\A i \in DOMAIN wpc' :
         /\ (i \in DOMAIN wpc /\ wpc[i] = "delay" /\ cancelled
                /\ wpc'[i] # "delay")
              => /\ retErr'[i] = CtxCanceled
                 /\ calls'[i] = calls[i]
                 /\ wpc'[i] = "sendFinal"
         /\ activeSent'[i] = 1 => calls'[i] >= 1
         /\ retErr'[i] = CtxCanceled => calls'[i] >= 1 /\ attempt'[i] >= 1]_vars

\* C15's case: with two retries allowed, a worker was cancelled in its
\* first retry delay and returned the cancellation error after one call.
C15_Witness ==
    \E i \in DOMAIN wpc :
      /\ cancelled
      /\ Config.RetryAttempts = 2
      /\ retErr[i] = CtxCanceled
      /\ calls[i] = 1
      /\ Len(outcomes[i]) = 1
      /\ wpc[i] = "returned"

\* A step sends an update for the repository called name.
EmitsFor(name) ==
    /\ Len(statusChan') > Len(statusChan)
    /\ statusChan'[Len(statusChan')].Name = name

\* C16: a record that is Completed or Failed keeps its status and no
\* update is sent for it any more, and no record goes back to Pending; for
\* every record, the placeholder of a failed listing included.
C16_StatusNeverRegresses ==
    [][\A i \in 1..Len(Repositories) :
         /\ IsTerminal(Repositories[i].Status)
              => /\ Repositories'[i].Status = Repositories[i].Status
                 /\ ~EmitsFor(Repositories[i].Name)
         /\ Repositories[i].Status # StatusPending
              => Repositories'[i].Status # StatusPending]_vars

\* C17: after a failed listing the record collection is exactly one
\* placeholder record, and it stays Failed with the listing error.
C17_PlaceholderStaysFailed ==
    (fetchedMsg = PlaceholderRepositories /\ phase \in {"launch", "running"})
      => /\ Len(Repositories) = 1
         /\ Repositories[1].Name = PlaceholderName
         /\ Repositories[1].Status = StatusFailed
         /\ Repositories[1].Error = ListingErr

\* C18: in every state a record has an error exactly when it is Failed.
C18_ErrorIffFailed ==
    \A i \in 1..Len(Repositories) :
      Repositories[i].Error # NilErr <=> Repositories[i].Status = StatusFailed

\* C18's case: a finished run with one record Failed with the error of
\* its worker's last attempt and one Completed without error.
C18_Witness ==
    /\ Done
    /\ \E i \in 1..Len(Repositories) :
         /\ Repositories[i].Status = StatusFailed
         /\ Repositories[i].Error.at >= 1
    /\ \E j \in 1..Len(Repositories) :
         /\ Repositories[j].Status = StatusCompleted
         /\ Repositories[j].Error = NilErr

\* C19: EndTime is unset while a record is Pending, Cloning or Fetching;
\* StartTime is stamped by the update that first makes the record Cloning
\* or Fetching and no later update changes it; and when both are set
\* StartTime is no later than EndTime.
C19_TimestampsOrdered ==
    [][\A i \in 1..Len(Repositories') :
         LET r == Repositories'[i] IN
           /\ ~IsTerminal(r.Status) => r.EndTime = 0
           /\ IsActive(r.Status) => r.StartTime > 0
           /\ (r.StartTime > 0 /\ r.EndTime > 0) => r.StartTime <= r.EndTime
           /\ i <= Len(Repositories) =>
                /\ Repositories[i].StartTime > 0
                     => r.StartTime = Repositories[i].StartTime
                /\ (IsActive(r.Status) /\ ~IsActive(Repositories[i].Status))
                     => r.StartTime = clock']_vars

\* C19's case: a settled record with both stamps next to a record in
\* progress that has only its StartTime.
C19_Witness ==
    /\ \E i \in 1..Len(Repositories) :
         /\ IsTerminal(Repositories[i].Status)
         /\ Repositories[i].StartTime > 0
         /\ Repositories[i].EndTime > Repositories[i].StartTime
    /\ \E i \in 1..Len(Repositories) :
         /\ IsActive(Repositories[i].Status)
         /\ Repositories[i].StartTime > 0
         /\ Repositories[i].EndTime = 0

\* C20: the active-state update a worker sends is Fetching when a local
\* copy of its repository exists and Cloning otherwise.
C20_FetchingWhenCloned ==
    [][\A i \in DOMAIN wpc :
         activeSent'[i] > activeSent[i] =>
           statusChan'[Len(statusChan')].Status =
             (IF exists[NameOf(i)] THEN StatusFetching ELSE StatusCloning)]_vars

\* The message has the words of phrase next to each other, in order.
HasPhrase(msg, phrase) ==
    \E a \in 1..Len(msg) :
      /\ a + Len(phrase) - 1 <= Len(msg)
      /\ SubSeq(msg, a, a + Len(phrase) - 1) = phrase

\* C11: isNonRetryableError answers true exactly for the errors whose
\* message contains "authentication", "permission denied" or "not found",
\* and false for nil and for every other error.
C11_ClassifiesByMessage ==
    verdict # <<>> =>
      (verdict[1] <=>
         /\ errArg # NilErr
         /\ \/ HasPhrase(errArg.msg, <<"authentication">>)
            \/ HasPhrase(errArg.msg, <<"permission", "denied">>)
            \/ HasPhrase(errArg.msg, <<"not", "found">>))

\* C11's case: an error whose message has "permission denied" after
\* another word was classified as non-retryable.
C11_Witness ==
    /\ verdict = <<TRUE>>
    /\ Len(errArg.msg) = 3
    /\ errArg.msg[1] = "network"
    /\ errArg.msg[2] = "permission"
    /\ errArg.msg[3] = "denied"

\* C21: a syncRepo call invokes one operation, chosen when the call begins:
\* fetch if the repository's local copy exists at that moment and clone
\* otherwise; the operation stays the same until the call returns; a
\* successful call leaves a local copy and no local copy disappears, so
\* every attempt after a successful clone is a fetch.
C21_OneOperationPerAttempt ==
    [][\A i \in DOMAIN wpc :
         /\ calls'[i] = calls[i] + 1
              => /\ op[i] = "none"
                 /\ op'[i] = (IF exists[NameOf(i)] THEN "fetch" ELSE "clone")
         /\ (calls'[i] = calls[i] /\ op[i] # "none")
              => \/ op'[i] = op[i] /\ outcomes'[i] = outcomes[i]
                 \/ op'[i] = "none" /\ Len(outcomes'[i]) = Len(outcomes[i]) + 1
         /\ (Len(outcomes'[i]) > Len(outcomes[i])
               /\ outcomes'[i][Len(outcomes'[i])] = NilErr)
              => exists'[NameOf(i)]
         /\ exists[NameOf(i)] => exists'[NameOf(i)]]_vars

\* C21's case: one worker retries with a fetch (its repository has a local
\* copy) while another is cloning.
C21_Witness ==
    /\ \E i \in DOMAIN wpc :
         /\ wpc[i] = "syncing"
         /\ calls[i] = 2
         /\ op[i] = "fetch"
         /\ exists[NameOf(i)]
    /\ \E j \in DOMAIN wpc :
         /\ wpc[j] = "syncing"
         /\ op[j] = "clone"
         /\ ~exists[NameOf(j)]

Succeeded == {i \in DOMAIN wpc : Finished(i) /\ retErr[i] = NilErr}
FailedWorkers == {i \in DOMAIN wpc : Finished(i) /\ retErr[i] # NilErr}

\* C22: in a run without cancellation, when Done is reached every worker
\* has its result, each record is Completed exactly if syncRepoWithRetry
\* returned nil for it and Failed with the returned error otherwise, and
\* the displayed counts are the number of repositories that succeeded and
\* the number that failed.
C22_FinalAggregate ==
    (Done /\ ~cancelled) =>
      /\ \A i \in 1..Len(Repositories) :
           /\ i \in DOMAIN wpc
           /\ Finished(i)
           /\ Repositories[i].Status =
                (IF retErr[i] = NilErr THEN StatusCompleted ELSE StatusFailed)
           /\ Repositories[i].Error = retErr[i]
      /\ HeaderStats(Repositories).ok = Cardinality(Succeeded)
      /\ HeaderStats(Repositories).err = Cardinality(FailedWorkers)
      /\ HeaderStats(Repositories).active = 0

\* C22's case: a finished run of two repositories, one synced and one that
\* failed at its only attempt with a non-retryable error: 1 ok, 1 failed.
C22_Witness ==
    /\ Done
    /\ ~cancelled
    /\ Len(Repositories) = 2
    /\ HeaderStats(Repositories).ok = 1
    /\ HeaderStats(Repositories).err = 1
    /\ \E i \in 1..Len(Repositories) :
         /\ Repositories[i].Status = StatusFailed
         /\ FailedNonRetryably(Repositories[i].Error)
         /\ calls[i] = 1

\* C23: failures stay with their repository.  Every step moves at most one
\* worker, the channel is closed only when all workers have returned, and
\* in a run without cancellation a repository whose sync succeeded ends
\* Completed, whatever happens to the other repositories.
C23_FailuresIsolated ==
    /\ [][\A i \in DOMAIN wpc :
            wpc'[i] # wpc[i] =>
              \A j \in DOMAIN wpc \ {i} :
                /\ wpc'[j] = wpc[j]
                /\ retErr'[j] = retErr[j]
                /\ calls'[j] = calls[j]]_vars
    /\ [](chanClosed => AllReturned)
    /\ \A i \in 1..Len(RepoNames) :
         (i \in DOMAIN wpc /\ Finished(i) /\ retErr[i] = NilErr)
           ~> (i <= Len(Repositories)
                 /\ Repositories[i].Status = StatusCompleted)

\* C23's case: a finished run in which one repository used up its retries
\* and failed and another is Completed.
C23_Witness ==
    /\ Done
    /\ ~cancelled
    /\ \E j \in DOMAIN wpc :
         /\ Repositories[j].Status = StatusFailed
         /\ AllRetryable(j)
         /\ calls[j] = Config.RetryAttempts + 1
         /\ calls[j] >= 2
    /\ \E i \in DOMAIN wpc :
         /\ retErr[i] = NilErr
         /\ Repositories[i].Status = StatusCompleted

FailedAttempts(i) ==
    Cardinality({k \in 1..Len(outcomes[i]) : outcomes[i][k] # NilErr})

\* C24: a record's RetryCount equals the number of failed sync attempts
\* made for its repository; stated for the records whose terminal update
\* has been applied, where no attempt is still to be reported.
C24_RetryCountIsFailedAttempts ==
    \A i \in DOMAIN wpc :
      (IsTerminal(Repositories[i].Status) /\ terminalSent[i] = 1
         /\ Repositories[i].EndTime > 0)
        => Repositories[i].RetryCount = FailedAttempts(i)

\* C25: the record collection changes only in steps of the aggregator:
\* when Update stores the fetched list and when it applies a status update
\* received from the channel; no step of a worker goroutine changes any
\* field of any record.
C25_OnlyAggregatorWrites ==
    [][Repositories' # Repositories =>
         \/ /\ phase = "fetched"
            /\ Repositories' = fetchedMsg
         \/ /\ inbox # NoMsg
            /\ inbox' = NoMsg
            /\ Repositories' =
                 updateRepositoryStatus(Repositories, inbox.Name, inbox.Status,
                                        inbox.Error, clock')]_vars

\* C26: when the listing has failed, the process ends with a non-zero exit
\* status.
C26_ListingFailureExitsNonZero ==
    (remote < 0 /\ phase # "listing" /\ program = "quitting")
      => ExitStatus(RunResult) # 0

\* C27: once the run is cancelled no record that is Pending, Cloning or
\* Fetching becomes Completed or Failed, and a record that is Completed or
\* Failed keeps its status.
C27_CancelFreezesRecords ==
    [][cancelled =>
         \A i \in 1..Len(Repositories) :
           /\ ~IsTerminal(Repositories[i].Status)
                => ~IsTerminal(Repositories'[i].Status)
           /\ IsTerminal(Repositories[i].Status)
                => Repositories'[i].Status = Repositories[i].Status]_vars

\* C28: cancelling the run does not end an external operation that has
\* started: in a run whose commands never reach their own timeout, no
\* attempt ends killed.
C28_CancelDoesNotKill ==
    KilledCause \notin causes =>
      \A i \in DOMAIN wpc :
        \A k \in 1..Len(outcomes[i]) :
          outcomes[i][k] # NilErr => CauseOf(outcomes[i][k]) # KilledCause

\* C29: a worker that returns gives back the slot it holds, on every exit
\* path; a worker that returns while waiting for a slot holds none and gives
\* none back; once all workers have returned no slot is held.
C29_SlotReleasedOnReturn ==
    [][/\ \A i \in (DOMAIN wpc) \cap (DOMAIN wpc') :
            (wpc[i] # "returned" /\ wpc'[i] = "returned")
              => /\ ~slot'[i]
                 /\ semaphore' = semaphore - (IF slot[i] THEN 1 ELSE 0)
                 /\ wpc[i] = "acquire" => (~slot[i] /\ semaphore' = semaphore)
                 /\ wpc[i] # "acquire" => slot[i]
       /\ AllReturned' => semaphore' = 0]_vars

\* All workers have returned with no slot held, one without ever holding a
\* slot or right after acquiring one, one after sending its terminal update
\* for a failed sync, one on cancellation at the terminal send.
C29_Witness ==
    /\ AllReturned
    /\ semaphore = 0
    /\ \E i, j, k \in DOMAIN wpc :
         /\ activeSent[i] = 0
         /\ terminalSent[j] = 1 /\ retErr[j] # NilErr
         /\ calls[k] > 0 /\ terminalSent[k] = 0

\* C30: at most one listener command is outstanding (never an armed
\* listener together with an update it has already returned), a listener is
\* armed again only by the application of an update that leaves the run not
\* Done, and updates are applied one at a time in the order they were sent:
\* every step leaves the pending updates alone, adds one behind them, or
\* applies the oldest of them.
C30_OneListenerInOrder ==
    [][/\ ~(listener' = "armed" /\ inbox' # NoMsg)
       /\ \/ /\ Pipeline' = Pipeline
             /\ Repositories' = Repositories \/ phase' # phase
             /\ listener' = "armed" => listener = "armed"
          \/ /\ Len(Pipeline') = Len(Pipeline) + 1
             /\ SubSeq(Pipeline', 1, Len(Pipeline)) = Pipeline
             /\ Repositories' = Repositories
             /\ listener' = "armed" => listener = "armed"
          \/ /\ Pipeline # <<>>
             /\ Pipeline' = Tail(Pipeline)
             /\ Repositories' =
                  updateRepositoryStatus(Repositories, Head(Pipeline).Name,
                                         Head(Pipeline).Status,
                                         Head(Pipeline).Error, clock')
             /\ listener = "idle"
             /\ listener' = IF Done' THEN "idle" ELSE "armed"]_vars

\* Two updates have been applied, a third is in the listener's hand and one
\* of another repository waits behind it in the channel.
C30_Witness ==
    /\ clock >= 2
    /\ inbox # NoMsg
    /\ statusChan # <<>>
    /\ inbox.Name # Head(statusChan).Name
    /\ listener = "idle"

\* C31: a call of updateRepositoryStatus for a name that no record has
\* leaves the record collection as it was: no record changes (status, error,
\* timestamps, retry count) and none is added.
C31_UnknownNameIgnored ==
    [][(clock' = clock + 1
        /\ \A i \in 1..Len(Repositories) : Repositories[i].Name # updArg'.Name)
         => Repositories' = Repositories]_vars

\* Two records, one of them already updated, and the last call was for a
\* name neither of them has.
C31_Witness ==
    /\ Len(Repositories) = 2
    /\ updArg # NoMsg
    /\ \A i \in 1..Len(Repositories) : Repositories[i].Name # updArg.Name
    /\ \E i \in 1..Len(Repositories) : Repositories[i].Status = StatusFailed
    /\ clock >= 2

\* C40: a call of updateRepositoryStatus changes no record other than the
\* first one with the given name: every record with another name, and
\* every later record with the same name, is as before, and the collection
\* keeps its length.
C40_OnlyFirstMatchChanges ==
    [][clock' = clock + 1
         => /\ Len(Repositories') = Len(Repositories)
            /\ \A i \in 1..Len(Repositories) :
                 (\/ Repositories[i].Name # updArg'.Name
                  \/ \E j \in 1..(i - 1) : Repositories[j].Name = updArg'.Name)
                   => Repositories'[i] = Repositories[i]]_vars

\* Two records of the same name: the calls for that name have reached the
\* first (it is Completed and stamped) and the second is still as assigned.
C40_Witness ==
    /\ Len(Repositories) = 2
    /\ Repositories[1].Name = Repositories[2].Name
    /\ updArg.Name = Repositories[1].Name
    /\ Repositories[1].Status = StatusCompleted
    /\ Repositories[1].EndTime > 0
    /\ Repositories[2] = NewRepository(Repositories[2].Name, StatusPending, NilErr)

\* C32: a run whose listing answers with no repository at all eventually
\* has Done set, without a key being pressed.
C32_EmptyListingReachesDone == (remote = 0) ~> Done

\* C33: in a test-mode run in which the quit key is never pressed, every
\* simulated sync that has started eventually returns, and a run with at
\* least one repository eventually has Done set.
C33_SimulatedSyncReturns ==
    /\ \A i \in 1..MaxRepos :
         (i \in DOMAIN wpc /\ wpc[i] = "simulating")
           ~> (i \in DOMAIN wpc /\ wpc[i] # "simulating")
    /\ (TestMode /\ TestRepoCount >= 1) ~> Done

\* C34: the status channel is closed once, by a step taken when every
\* worker has returned, and it stays closed; nothing is sent on it once it
\* is closed, and no worker is left that could send.
C34_ClosedOnceAfterWorkers ==
    [][/\ chanClosed' # chanClosed
            => /\ ~chanClosed /\ chanClosed'
               /\ closer = "waiting" /\ closer' = "closed"
               /\ wpc # <<>> => AllReturned
               /\ wg = 0
       /\ closer = "closed" => closer' = "closed" /\ chanClosed'
       /\ chanClosed' => AllReturned'
       /\ Len(statusChan') > Len(statusChan) => ~chanClosed /\ ~chanClosed']_vars

\* The channel is closed after two workers returned, one having sent its
\* terminal update and one having left on cancellation before that.
C34_Witness ==
    /\ chanClosed
    /\ \E i, j \in DOMAIN wpc :
         /\ terminalSent[i] = 1
         /\ activeSent[j] = 1 /\ terminalSent[j] = 0
    /\ AllReturned

\* The number of records whose status is one of the given ones.
NumberIn(statuses) ==
    Cardinality({i \in 1..Len(Repositories) : Repositories[i].Status \in statuses})

\* C35: in every reachable state the counts agree with a scan of the
\* records: countCompleted is the number of Completed or Failed records,
\* countFailed the number of Failed ones, countActive the number of Cloning
\* or Fetching ones; so countFailed <= countCompleted, and countCompleted,
\* countActive and the number of Pending records add up to the total.
C35_CountsAgreeWithScan ==
    /\ countCompleted(Repositories) = NumberIn({"Completed", "Failed"})
    /\ countFailed(Repositories) = NumberIn({"Failed"})
    /\ countActive(Repositories) = NumberIn({"Cloning", "Fetching"})
    /\ countFailed(Repositories) <= countCompleted(Repositories)
    /\ countCompleted(Repositories) + countActive(Repositories)
         + NumberIn({"Pending"}) = Len(Repositories)

\* Three records: one Failed, one being cloned, one still Pending.
C35_Witness ==
    /\ Len(Repositories) = 3
    /\ countFailed(Repositories) = 1
    /\ countCompleted(Repositories) = 1
    /\ countActive(Repositories) = 1
    /\ NumberIn({"Pending"}) = 1

\* The names of the records, in order.
Names(repos) == [i \in 1..Len(repos) |-> repos[i].Name]

\* C36: once the repository list has been received the records are, in
\* listing order, one per listed name (the single placeholder when the
\* listing failed), and no later step (status update, key press, worker
\* step) adds, removes, renames or reorders a record.
C36_OneRecordPerName ==
    [][/\ phase' \in {"launch", "running"}
            => /\ Names(Repositories') =
                    IF fetchedMsg' = PlaceholderRepositories
                    THEN <<PlaceholderName>>
                    ELSE [i \in 1..remote |-> RepoNames[i]]
               /\ \A i, j \in 1..Len(Repositories') :
                    Repositories'[i].Name = Repositories'[j].Name => i = j
       /\ phase \in {"launch", "running"}
            => Names(Repositories') = Names(Repositories)]_vars

\* Both records of a two-repository run are settled, one Completed and one
\* Failed, and the "c" key has been pressed.
C36_Witness ==
    /\ phase = "running"
    /\ Len(Repositories) = 2
    /\ Repositories[1].Status = StatusCompleted
    /\ Repositories[2].Status = StatusFailed
    /\ ShowCompleted
    /\ Done

\* C37: the context is cancelled only by a quit key press, which can come
\* in any state of a running program and changes nothing else but to end
\* the program; once cancelled the context stays cancelled; and a step that
\* toggles ShowCompleted (the "c" key) changes no record, not Done and not
\* the cancellation.
C37_OnlyQuitKeyCancels ==
    [][/\ cancelled => cancelled'
       /\ program = "running" => ENABLED KeyQuit
       /\ cancelled' # cancelled
            => /\ program = "running" /\ program' = "quitting"
               /\ UNCHANGED <<phase, fetchedMsg, modelVars, chanVars, listener,
                              inbox, poolVars, workerVars, envVars>>
       /\ ShowCompleted' # ShowCompleted
            => UNCHANGED <<Repositories, Done, cancelled>>]_vars

\* The quit key was pressed in the middle of a run in which the "c" key had
\* been pressed: a record is being cloned, the context is cancelled.
C37_Witness ==
    /\ cancelled
    /\ ShowCompleted
    /\ phase = "running"
    /\ \E i \in 1..Len(Repositories) : Repositories[i].Status = StatusCloning
    /\ \E i \in DOMAIN wpc : wpc[i] = "syncing"

\* C39: DefaultSyncConfig is MaxConcurrency 5, Timeout 30 s, RetryAttempts
\* 2, RetryDelay 1 s; the configuration of a run has a positive
\* MaxConcurrency and Timeout and non-negative RetryAttempts, the Timeout
\* and RetryDelay of the default, and no step of the run changes it.
C39_DefaultConfigNeverChanges ==
    [][/\ DefaultSyncConfig.MaxConcurrency = 5
       /\ DefaultSyncConfig.Timeout = 30
       /\ DefaultSyncConfig.RetryAttempts = 2
       /\ DefaultSyncConfig.RetryDelay = 1
       /\ Config.MaxConcurrency > 0 /\ Config.Timeout > 0
       /\ Config.RetryAttempts >= 0
       /\ Config.Timeout = DefaultSyncConfig.Timeout
       /\ Config.RetryDelay = DefaultSyncConfig.RetryDelay
       /\ Config' = Config]_vars

\* A run with the default configuration has ended after its repository
\* failed on every attempt the configuration allows: the first and the two
\* retries.
C39_Witness ==
    /\ Config = DefaultSyncConfig
    /\ Config.RetryAttempts = 2
    /\ Done
    /\ program = "quitting"
    /\ \E i \in DOMAIN wpc : calls[i] = 3 /\ retErr[i] # NilErr

\* C38: in a run that is not cancelled, the step that sets Done finds every
\* worker past its terminal send and leaves the status channel empty with
\* no update waiting to be applied; and while Done holds no worker is at a
\* send.
C38_NothingPendingAtDone ==
    [][~cancelled'
         => /\ (~Done /\ Done')
                 => /\ statusChan' = <<>>
                    /\ inbox' = NoMsg
                    /\ \A i \in DOMAIN wpc :
                         /\ terminalSent[i] = 1
                         /\ wpc[i] \in {"exit", "returned"}
            /\ Done'
                 => \A i \in DOMAIN wpc' :
                      wpc'[i] \notin {"sendInitial", "sendFinal"}]_vars

\* Done has been set in a run of three repositories that was not cancelled.
C38_Witness ==
    /\ Done
    /\ ~cancelled
    /\ Len(Repositories) = 3
    /\ statusChan = <<>>
    /\ \A i \in DOMAIN wpc : terminalSent[i] = 1

====
